---- MODULE Spec2Model ----
(***************************************************************************)
(* A model of weather.py: temperature conversion, date formatting, the     *)
(* statistics helpers, the csv loader and the two summary builders.        *)
(*                                                                         *)
(* Representation.                                                         *)
(*   - A Python str is a sequence of non-empty string tokens; the newline  *)
(*     character is the token "\n".  Concatenation is \o.                  *)
(*   - A float with one decimal (the result of round(x, 1)) is the integer *)
(*     number of tenths; any other number is an exact rational             *)
(*     [n |-> numerator, d |-> denominator] with d > 0.                    *)
(*   - An ISO date string "YYYY-MM-DD" is the record [y, m, d] of the      *)
(*     numbers written in it, valid calendar date or not.                  *)
(*   - A list index is 0-based as in Python; sequence access adds one.     *)
(*   - A call's outcome is [kind, val, exc, arg]: it returns val or raises *)
(*     exc, and arg is the value of the list object passed to it once the  *)
(*     call is over (lists are passed by reference).                       *)
(***************************************************************************)
EXTENDS Integers, Sequences, FiniteSets, TLC

VARIABLES series, op, arg, result, saved

vars == <<series, op, arg, result, saved>>

-----------------------------------------------------------------------------
(* Bounds of the model *)

MaxDays == 2

FRange == 180

MaxRows == 2

MaxFields == 3

-----------------------------------------------------------------------------
(* Outcomes of a call *)

Return(v, a) == [kind |-> "return", val |-> v, exc |-> "none", arg |-> a]

Raise(e, a) == [kind |-> "raise", val |-> <<>>, exc |-> e, arg |-> a]

SameOutcome(r1, r2) ==
    /\ r1.kind = r2.kind
    /\ r1.exc = r2.exc
    /\ r1.kind = "return" => r1.val = r2.val

-----------------------------------------------------------------------------
(* Numbers *)

Abs(x) == IF x < 0 THEN -x ELSE x

Rat(n, d) == [n |-> n, d |-> d]

\* float(data_point) of an integer: the same number
Float(i) == Rat(i, 1)

RatLess(a, b) == a.n * b.d < b.n * a.d

RatEq(a, b) == a.n * b.d = b.n * a.d

\* a variant that cuts the digits after the first decimal off
TruncateTenths(p, q) ==
    LET n == 10 * p
    IN  IF n >= 0 THEN n \div q ELSE -((-n) \div q)

\* round(p/q, 1) in tenths, q > 0: nearest tenth, an exact tie to the even one.
\* The double p/q differs from the rational by less than the distance to a
\* half-way point unless p/q is one; for integer readings none is, and the
\* means of the series modelled meet only ties that a double holds exactly.
RoundTenths(p, q) ==
    LET n  == 10 * p
        fl == n \div q
        r  == n % q
    IN  IF 2 * r < q THEN fl
        ELSE IF 2 * r > q THEN fl + 1
        ELSE IF fl % 2 = 0 THEN fl ELSE fl + 1

\* repr of a float with one decimal, as f"{temp}" prints it
FloatStr(t) ==
    (IF t < 0 THEN <<"-">> ELSE <<>>)
        \o <<ToString(Abs(t) \div 10), ".", ToString(Abs(t) % 10)>>

-----------------------------------------------------------------------------
(* format_temperature, convert_date, convert_f_to_c *)

DEGREE_SYMBOL == "°C"

format_temperature(temp) == FloatStr(temp) \o <<DEGREE_SYMBOL>>

IsLeap(y) == y % 4 = 0 /\ (y % 100 # 0 \/ y % 400 = 0)

DaysInMonth(y, m) ==
    IF m = 2 THEN (IF IsLeap(y) THEN 29 ELSE 28)
    ELSE IF m \in {4, 6, 9, 11} THEN 30 ELSE 31

RECURSIVE DaysBeforeMonth(_, _)
DaysBeforeMonth(y, m) ==
    IF m <= 1 THEN 0 ELSE DaysBeforeMonth(y, m - 1) + DaysInMonth(y, m - 1)

DaysBeforeYear(y) ==
    (y - 1) * 365 + (y - 1) \div 4 - (y - 1) \div 100 + (y - 1) \div 400

\* date.weekday(): Monday is 0
Weekday(dt) ==
    (DaysBeforeYear(dt.y) + DaysBeforeMonth(dt.y, dt.m) + dt.d + 6) % 7

WeekdayName ==
    <<"Monday", "Tuesday", "Wednesday", "Thursday", "Friday", "Saturday", "Sunday">>

MonthName ==
    <<"January", "February", "March", "April", "May", "June", "July",
      "August", "September", "October", "November", "December">>

\* datetime.fromisoformat accepts exactly the calendar dates
IsValidDate(dt) ==
    /\ dt.y \in 1..9999
    /\ dt.m \in 1..12
    /\ dt.d \in 1..DaysInMonth(dt.y, dt.m)

RECURSIVE NumDigits(_)
NumDigits(n) == IF n < 10 THEN 1 ELSE 1 + NumDigits(n \div 10)

\* a number printed in at least width digits, as %d and %Y print it
ZeroPad(n, width) ==
    [k \in 1..(width - NumDigits(n)) |-> "0"] \o <<ToString(n)>>

\* strftime("%A %d %B %Y")
Strftime(dt) ==
    <<WeekdayName[Weekday(dt) + 1], " ">> \o ZeroPad(dt.d, 2)
        \o <<" ", MonthName[dt.m], " ">> \o ZeroPad(dt.y, 4)

convert_date(iso_string) ==
    IF IsValidDate(iso_string)
    THEN Return(Strftime(iso_string), <<>>)
    ELSE Raise("ValueError:fromisoformat", <<>>)

\* round((float(x) - 32) * 5/9, 1) for the rational x, in tenths
convert_f_to_c(x) == RoundTenths((x.n - 32 * x.d) * 5, 9 * x.d)

-----------------------------------------------------------------------------
(* calculate_mean, find_min, find_max *)

RECURSIVE SeqSum(_)
SeqSum(s) == IF s = <<>> THEN 0 ELSE s[1] + SeqSum(Tail(s))

\* min(xs) and max(xs): one scan that keeps the first extreme item found
RECURSIVE PyMin(_)
PyMin(xs) ==
    IF Len(xs) = 1 THEN xs[1]
    ELSE LET m == PyMin(SubSeq(xs, 1, Len(xs) - 1))
         IN  IF RatLess(xs[Len(xs)], m) THEN xs[Len(xs)] ELSE m

RECURSIVE PyMax(_)
PyMax(xs) ==
    IF Len(xs) = 1 THEN xs[1]
    ELSE LET m == PyMax(SubSeq(xs, 1, Len(xs) - 1))
         IN  IF RatLess(m, xs[Len(xs)]) THEN xs[Len(xs)] ELSE m

SetMax(S) == CHOOSE x \in S : \A y \in S : y <= x

\* the 0-based indexes at which item occurs, as enumerate() numbers them
IndexesOf(xs, item) == {i \in 0..(Len(xs) - 1) : RatEq(xs[i + 1], item)}

\* a variant that divides the sum by the length (lines 71-74)
calculate_mean_by_division(weather_data) ==
    IF Len(weather_data) = 0
    THEN Raise("ZeroDivisionError", weather_data)
    ELSE Return(Rat(SeqSum(weather_data), Len(weather_data)), weather_data)

calculate_mean(weather_data) ==
    IF Len(weather_data) = 0
    THEN Raise("StatisticsError", weather_data)
    ELSE Return(Rat(SeqSum(weather_data), Len(weather_data)), weather_data)

SetMin(S) == CHOOSE x \in S : \A y \in S : x <= y

\* a variant that reports the first index of the minimum, as list.index does
find_min_first(weather_data) ==
    LET weather_data_float == [k \in 1..Len(weather_data) |-> Float(weather_data[k])]
    IN  IF Len(weather_data_float) = 0
        THEN Return(<<>>, weather_data)
        ELSE LET min_value == PyMin(weather_data_float)
                 min_value_index == SetMin(IndexesOf(weather_data_float, min_value))
             IN  Return(<<min_value, min_value_index>>, weather_data)

find_min(weather_data) ==
    LET weather_data_float == [k \in 1..Len(weather_data) |-> Float(weather_data[k])]
    IN  IF Len(weather_data_float) = 0
        THEN Return(<<>>, weather_data)
        ELSE LET min_value == PyMin(weather_data_float)
                 min_value_index == SetMax(IndexesOf(weather_data_float, min_value))
             IN  Return(<<min_value, min_value_index>>, weather_data)

\* a variant that reports the first index of the maximum, as list.index does
find_max_first(weather_data) ==
    LET weather_data_float == [k \in 1..Len(weather_data) |-> Float(weather_data[k])]
    IN  IF Len(weather_data_float) = 0
        THEN Return(<<>>, weather_data)
        ELSE LET max_value == PyMax(weather_data_float)
                 max_value_index == SetMin(IndexesOf(weather_data_float, max_value))
             IN  Return(<<max_value, max_value_index>>, weather_data)

find_max(weather_data) ==
    LET weather_data_float == [k \in 1..Len(weather_data) |-> Float(weather_data[k])]
    IN  IF Len(weather_data_float) = 0
        THEN Return(<<>>, weather_data)
        ELSE LET max_value == PyMax(weather_data_float)
                 max_value_index == SetMax(IndexesOf(weather_data_float, max_value))
             IN  Return(<<max_value, max_value_index>>, weather_data)

-----------------------------------------------------------------------------
(* generate_summary *)

\* the columns the loop of generate_summary collects: day[1] and day[2]
MinTemps(weather_data) == [k \in 1..Len(weather_data) |-> weather_data[k][2]]

MaxTemps(weather_data) == [k \in 1..Len(weather_data) |-> weather_data[k][3]]

\* the f-string of generate_summary
SummaryString(n, min_temp_value, min_date, max_temp_value, max_date, mean_min_temp, mean_max_temp) ==
    <<ToString(n), " Day Overview", "\n">>
    \o <<"  The lowest temperature will be ">>
    \o format_temperature(convert_f_to_c(min_temp_value))
    \o <<", and will occur on ">> \o min_date \o <<".", "\n">>
    \o <<"  The highest temperature will be ">>
    \o format_temperature(convert_f_to_c(max_temp_value))
    \o <<", and will occur on ">> \o max_date \o <<".", "\n">>
    \o <<"  The average low this week is ">>
    \o format_temperature(convert_f_to_c(mean_min_temp)) \o <<".", "\n">>
    \o <<"  The average high this week is ">>
    \o format_temperature(convert_f_to_c(mean_max_temp)) \o <<".", "\n">>

\* value, index = t: a tuple of any other length than two cannot be unpacked
CanUnpack(t) == Len(t) = 2

\* weather_data[i] is defined (i >= 0 here, an index of find_min/find_max)
InRange(weather_data, i) == (i + 1) \in DOMAIN weather_data

\* lines 185-197: the minimum half, once the maximum half has succeeded
SummaryMinPart(weather_data, min_temps, max_found, max_date, mean_max) ==
    LET min_found == find_min(min_temps)
    IN  IF ~CanUnpack(min_found.val)
        THEN Raise("ValueError:unpack", weather_data)
        ELSE IF ~InRange(weather_data, min_found.val[2])
        THEN Raise("IndexError", weather_data)
        ELSE
        LET min_date == convert_date(weather_data[min_found.val[2] + 1][1])
        IN  IF min_date.kind = "raise"
            THEN Raise(min_date.exc, weather_data)
            ELSE
            LET mean_min == calculate_mean(min_found.arg)
            IN  IF mean_min.kind = "raise"
                THEN Raise(mean_min.exc, weather_data)
                ELSE Return(SummaryString(Len(weather_data),
                                          min_found.val[1], min_date.val,
                                          max_found.val[1], max_date.val,
                                          mean_min.val, mean_max.val),
                            weather_data)

\* lines 180-183: the maximum half, then the minimum half
SummaryMaxPart(weather_data, min_temps, max_temps) ==
    LET max_found == find_max(max_temps)
    IN  IF ~CanUnpack(max_found.val)
        THEN Raise("ValueError:unpack", weather_data)
        ELSE IF ~InRange(weather_data, max_found.val[2])
        THEN Raise("IndexError", weather_data)
        ELSE
        LET max_date == convert_date(weather_data[max_found.val[2] + 1][1])
        IN  IF max_date.kind = "raise"
            THEN Raise(max_date.exc, weather_data)
            ELSE
            LET mean_max == calculate_mean(max_found.arg)
            IN  IF mean_max.kind = "raise"
                THEN Raise(mean_max.exc, weather_data)
                ELSE SummaryMinPart(weather_data, min_temps, max_found,
                                    max_date, mean_max)

\* a variant that formats the date of every day before it looks for the extremes
generate_summary_every_date(weather_data) ==
    IF \E k \in DOMAIN weather_data : convert_date(weather_data[k][1]).kind = "raise"
    THEN Raise("ValueError:fromisoformat", weather_data)
    ELSE SummaryMaxPart(weather_data, MinTemps(weather_data), MaxTemps(weather_data))

\* a variant that answers an empty series with the bare heading
generate_summary_empty_heading(weather_data) ==
    IF Len(weather_data) = 0
    THEN Return(<<"0", " Day Overview", "\n">>, weather_data)
    ELSE SummaryMaxPart(weather_data, MinTemps(weather_data), MaxTemps(weather_data))

generate_summary(weather_data) ==
    SummaryMaxPart(weather_data, MinTemps(weather_data), MaxTemps(weather_data))

-----------------------------------------------------------------------------
(* generate_daily_summary *)

\* the f-string appended for one day
DayBlock(formatted_date, day) ==
    <<"---- ">> \o formatted_date \o <<" ----", "\n">>
    \o <<"  Minimum Temperature: ">>
    \o format_temperature(convert_f_to_c(Float(day[2]))) \o <<"\n">>
    \o <<"  Maximum Temperature: ">>
    \o format_temperature(convert_f_to_c(Float(day[3]))) \o <<"\n">>

\* the for loop from day k on, daily_summary being the list built so far
RECURSIVE DailyLoop(_, _, _)
DailyLoop(weather_data, k, daily_summary) ==
    IF k > Len(weather_data)
    THEN Return(daily_summary, weather_data)
    ELSE LET formatted == convert_date(weather_data[k][1])
         IN  IF formatted.kind = "raise"
             THEN Raise(formatted.exc, weather_data)
             ELSE DailyLoop(weather_data, k + 1,
                      Append(daily_summary, DayBlock(formatted.val, weather_data[k])))

\* a variant that leaves the separator out
RECURSIVE JoinWithoutSeparator(_, _)
JoinWithoutSeparator(sep, strings) ==
    IF Len(strings) = 0 THEN <<>>
    ELSE strings[1] \o JoinWithoutSeparator(sep, Tail(strings))

\* sep.join(strings)
RECURSIVE Join(_, _)
Join(sep, strings) ==
    IF Len(strings) = 0 THEN <<>>
    ELSE IF Len(strings) = 1 THEN strings[1]
    ELSE strings[1] \o sep \o Join(sep, Tail(strings))

\* a variant that takes the days off the list it is given as it goes
generate_daily_summary_consuming(weather_data) ==
    LET looped == DailyLoop(weather_data, 1, <<>>)
    IN  IF looped.kind = "raise"
        THEN looped
        ELSE Return(Join(<<"\n">>, looped.val) \o <<"\n">>, <<>>)

\* a variant without the newline added after the join
generate_daily_summary_joined_only(weather_data) ==
    LET looped == DailyLoop(weather_data, 1, <<>>)
    IN  IF looped.kind = "raise"
        THEN looped
        ELSE Return(Join(<<"\n">>, looped.val), weather_data)

generate_daily_summary(weather_data) ==
    LET looped == DailyLoop(weather_data, 1, <<>>)
    IN  IF looped.kind = "raise"
        THEN looped
        ELSE Return(Join(<<"\n">>, looped.val) \o <<"\n">>, weather_data)

-----------------------------------------------------------------------------
(* load_data_from_csv *)

\* A csv file is the sequence of its lines as csv.reader splits them, each a
\* sequence of cells; a blank line is the empty sequence.  A value of a
\* DictReader row is <<cell>>, or <<>> for None.

\* int(s) is defined for the numerals only
IntText == ("55" :> 55) @@ ("80" :> 80)

\* the position of a column in the header, 0 when the header lacks it
ColumnOf(fieldnames, key) ==
    IF \E i \in DOMAIN fieldnames : fieldnames[i] = key
    THEN CHOOSE i \in DOMAIN fieldnames : fieldnames[i] = key
    ELSE 0

\* DictReader: a field the row is too short for gets restval, None
DictRow(fieldnames, row) ==
    [key \in {fieldnames[i] : i \in DOMAIN fieldnames} |->
        IF ColumnOf(fieldnames, key) <= Len(row)
        THEN <<row[ColumnOf(fieldnames, key)]>>
        ELSE <<>>]

\* the exception of int(data_row[key]), "none" when it succeeds
IntError(data_row, key) ==
    IF key \notin DOMAIN data_row THEN "KeyError"
    ELSE IF data_row[key] = <<>> THEN "TypeError"
    ELSE IF data_row[key][1] \notin DOMAIN IntText THEN "ValueError:int"
    ELSE "none"

\* the exception of line 92 for one row, "none" when the record is built
RowError(data_row) ==
    IF "date" \notin DOMAIN data_row THEN "KeyError"
    ELSE IF IntError(data_row, "min") # "none" THEN IntError(data_row, "min")
    ELSE IntError(data_row, "max")

\* the date of a record: the cell, or the token None
DateOf(data_row) == IF data_row["date"] = <<>> THEN "None" ELSE data_row["date"][1]

RowRecord(data_row) ==
    <<DateOf(data_row), IntText[data_row["min"][1]], IntText[data_row["max"][1]]>>

\* the for loop over the rows from line k on
RECURSIVE LoadLoop(_, _, _, _)
LoadLoop(csv_file, fieldnames, k, csv_file_data) ==
    IF k > Len(csv_file)
    THEN Return(csv_file_data, csv_file)
    ELSE IF csv_file[k] = <<>>
    THEN LoadLoop(csv_file, fieldnames, k + 1, csv_file_data)
    ELSE LET data_row == DictRow(fieldnames, csv_file[k])
         IN  IF RowError(data_row) # "none"
             THEN Raise(RowError(data_row), csv_file)
             ELSE LoadLoop(csv_file, fieldnames, k + 1,
                           Append(csv_file_data, RowRecord(data_row)))

load_data_from_csv(csv_file) ==
    IF Len(csv_file) = 0
    THEN Return(<<>>, csv_file)
    ELSE LoadLoop(csv_file, csv_file[1], 2, <<>>)

-----------------------------------------------------------------------------
(* Inputs *)

GoodDates == {[y |-> 2021, m |-> 7, d |-> 6], [y |-> 2021, m |-> 7, d |-> 7]}

BadDates == {[y |-> 2021, m |-> 13, d |-> 1]}

Dates == GoodDates \cup BadDates

Temps == {55, 80}

Records == {<<dt, lo, hi>> : dt \in Dates, lo \in Temps, hi \in Temps}

AllSeries == UNION {[1..n -> Records] : n \in 0..MaxDays}

FInputs == (32 - FRange)..(32 + FRange)

Cells == {"2021-07-06", "55", "80", "abc"}

Rows == UNION {[1..n -> Cells] : n \in 0..MaxFields}

Headers == {<<"date", "min", "max">>, <<"min", "max", "date">>, <<"date", "min">>}

CsvFiles ==
    {<<>>} \cup {<<h>> \o rs : h \in Headers,
                              rs \in UNION {[1..n -> Rows] : n \in 0..MaxRows}}

NoResult == [kind |-> "none", val |-> <<>>, exc |-> "none", arg |-> <<>>]

NoCall == [op |-> "none", arg |-> <<>>, result |-> NoResult]

-----------------------------------------------------------------------------
(* The caller: calls on one series and on its columns *)

Init ==
    /\ series \in AllSeries
    /\ op = "init"
    /\ arg = <<>>
    /\ result = NoResult
    /\ saved = NoCall

\* an earlier call is remembered, to be compared with a later one
Remember ==
    \/ saved' = saved
    \/ /\ op # "init"
       /\ saved' = [op |-> op, arg |-> arg, result |-> result]

Columns(weather_data) == {MinTemps(weather_data), MaxTemps(weather_data)}

CallFindMin ==
    \E col \in Columns(series) :
        /\ op' = "find_min"
        /\ arg' = col
        /\ result' = find_min(col)
        /\ series' = series
        /\ Remember

CallFindMax ==
    \E col \in Columns(series) :
        /\ op' = "find_max"
        /\ arg' = col
        /\ result' = find_max(col)
        /\ series' = series
        /\ Remember

CallCalculateMean ==
    \E col \in Columns(series) :
        /\ op' = "calculate_mean"
        /\ arg' = col
        /\ result' = calculate_mean(col)
        /\ series' = series
        /\ Remember

CallGenerateSummary ==
    /\ op' = "generate_summary"
    /\ arg' = series
    /\ result' = generate_summary(series)
    /\ series' = result'.arg
    /\ Remember

CallGenerateDailySummary ==
    /\ op' = "generate_daily_summary"
    /\ arg' = series
    /\ result' = generate_daily_summary(series)
    /\ series' = result'.arg
    /\ Remember

Next ==
    \/ CallFindMin
    \/ CallFindMax
    \/ CallCalculateMean
    \/ CallGenerateSummary
    \/ CallGenerateDailySummary

Spec == Init /\ [][Next]_vars

-----------------------------------------------------------------------------
(* convert_f_to_c applied to a pair of readings *)

InitConv ==
    /\ series = <<>>
    /\ op = "init"
    /\ arg \in FInputs \X FInputs
    /\ result = NoResult
    /\ saved = NoCall

CallConvertFToC ==
    /\ op = "init"
    /\ op' = "convert_f_to_c"
    /\ result' = Return(<<convert_f_to_c(Float(arg[1])), convert_f_to_c(Float(arg[2]))>>, arg)
    /\ UNCHANGED <<series, arg, saved>>

NextConv == CallConvertFToC

SpecConv == InitConv /\ [][NextConv]_vars

-----------------------------------------------------------------------------
(* load_data_from_csv applied to a file *)

InitLoad ==
    /\ series = <<>>
    /\ op = "init"
    /\ arg \in CsvFiles
    /\ result = NoResult
    /\ saved = NoCall

CallLoadDataFromCsv ==
    /\ op = "init"
    /\ op' = "load_data_from_csv"
    /\ result' = load_data_from_csv(arg)
    /\ series' = IF result'.kind = "return" THEN result'.val ELSE series
    /\ UNCHANGED <<arg, saved>>

NextLoad == CallLoadDataFromCsv

SpecLoad == InitLoad /\ [][NextLoad]_vars

-----------------------------------------------------------------------------
(* Properties *)

\* text.split("\n"): the pieces between the newlines, the last one included
RECURSIVE SplitFrom(_, _, _)
SplitFrom(text, k, piece) ==
    IF k > Len(text) THEN <<piece>>
    ELSE IF text[k] = "\n" THEN <<piece>> \o SplitFrom(text, k + 1, <<>>)
    ELSE SplitFrom(text, k + 1, Append(piece, text[k]))

SplitLines(text) == SplitFrom(text, 1, <<>>)

\* the position (from 1) of the last day that holds the least value of a column
LastLowest(col) ==
    CHOOSE i \in DOMAIN col :
        /\ \A k \in DOMAIN col : col[i] <= col[k]
        /\ \A k \in DOMAIN col : k > i => col[i] < col[k]

\* the position (from 1) of the last day that holds the greatest value of a column
LastHighest(col) ==
    CHOOSE i \in DOMAIN col :
        /\ \A k \in DOMAIN col : col[k] <= col[i]
        /\ \A k \in DOMAIN col : k > i => col[k] < col[i]

AllDatesValid(weather_data) ==
    \A k \in DOMAIN weather_data : IsValidDate(weather_data[k][1])

\* C1: for a non-empty sequence find_min returns (v, i) with v the minimum and
\* i the largest 0-based index at which v occurs, find_max likewise for the
\* maximum; 0 <= i < length and values[i] = v.
C1_LastIndexOfExtreme ==
    (op \in {"find_min", "find_max"} /\ Len(arg) > 0) =>
        /\ result.kind = "return"
        /\ Len(result.val) = 2
        /\ LET v == result.val[1]
               i == result.val[2]
           IN  /\ i \in 0..(Len(arg) - 1)
               /\ v = Float(arg[i + 1])
               /\ \A k \in DOMAIN arg :
                    /\ op = "find_min" => arg[i + 1] <= arg[k]
                    /\ op = "find_max" => arg[k] <= arg[i + 1]
                    /\ arg[k] = arg[i + 1] => k - 1 <= i

\* a tied minimum and a tied maximum, each reported at the last index
C1_Witness ==
    /\ op = "find_min" /\ Len(arg) = 2 /\ arg[1] = arg[2]
    /\ result.kind = "return" /\ result.val[2] = 1
    /\ saved.op = "find_max" /\ Len(saved.arg) = 2 /\ saved.arg[1] = saved.arg[2]
    /\ saved.result.val[2] = 1

\* C2: for a non-empty series of parseable dates generate_summary returns, and
\* whenever it returns, its second line gives the minimum of the min_temp
\* column with the date of the LAST day that holds it, and its third line the
\* maximum of the max_temp column with the date of the LAST day that holds it.
C2_SummaryExtremes ==
    (op = "generate_summary" /\ Len(arg) > 0) =>
        /\ AllDatesValid(arg) => result.kind = "return"
        /\ result.kind = "return" =>
             LET lines == SplitLines(result.val)
                 lo == LastLowest(MinTemps(arg))
                 hi == LastHighest(MaxTemps(arg))
             IN  /\ Len(lines) = 6
                 /\ lines[1] = <<ToString(Len(arg)), " Day Overview">>
                 /\ lines[2] = <<"  The lowest temperature will be ">>
                        \o format_temperature(convert_f_to_c(Float(arg[lo][2])))
                        \o <<", and will occur on ">> \o convert_date(arg[lo][1]).val \o <<".">>
                 /\ lines[3] = <<"  The highest temperature will be ">>
                        \o format_temperature(convert_f_to_c(Float(arg[hi][3])))
                        \o <<", and will occur on ">> \o convert_date(arg[hi][1]).val \o <<".">>

\* two days tie for the highest and for the lowest; both dated by the second
C2_Witness ==
    /\ op = "generate_summary" /\ Len(arg) = 2
    /\ arg[1][2] = arg[2][2] /\ arg[1][3] = arg[2][3]
    /\ arg[1][1] # arg[2][1]
    /\ result.kind = "return"

\* C3: generate_summary on the empty series raises the unpacking error of the
\* empty result of find_max and returns no text.
C3_EmptySeriesFails ==
    (op = "generate_summary" /\ Len(arg) = 0) =>
        /\ result.kind = "raise"
        /\ result.exc = "ValueError:unpack"
        /\ result.val = <<>>

C3_Witness ==
    op = "generate_summary" /\ Len(arg) = 0 /\ result.kind = "raise"

\* C4: find_min and find_max return normally on every sequence, with the empty
\* tuple exactly when the sequence is empty; calculate_mean raises
\* StatisticsError on the empty sequence and returns on any other.
C4_EmptyOutcomes ==
    /\ op \in {"find_min", "find_max"} =>
        /\ result.kind = "return"
        /\ (Len(result.val) = 0) <=> (Len(arg) = 0)
    /\ op = "calculate_mean" =>
        /\ Len(arg) = 0 => (result.kind = "raise" /\ result.exc = "StatisticsError")
        /\ Len(arg) > 0 => result.kind = "return"

\* the mean of the empty sequence after the minimum of the empty sequence
C4_Witness ==
    /\ op = "calculate_mean" /\ Len(arg) = 0 /\ result.kind = "raise"
    /\ saved.op = "find_min" /\ Len(saved.arg) = 0
    /\ saved.result.kind = "return" /\ Len(saved.result.val) = 0

\* C5 as stated: generate_daily_summary on the empty series returns a string
\* of length 0.
C5_EmptyDailyIsEmptyString ==
    (op = "generate_daily_summary" /\ Len(arg) = 0) =>
        (result.kind = "return" /\ Len(result.val) = 0)

\* C5 amended: generate_daily_summary on the empty series returns the string
\* made of exactly one newline.
C5_EmptyDailyIsOneNewline ==
    (op = "generate_daily_summary" /\ Len(arg) = 0) =>
        (result.kind = "return" /\ result.val = <<"\n">>)

C5_Witness ==
    op = "generate_daily_summary" /\ Len(arg) = 0 /\ result.kind = "return"

\* C6: for n >= 1 days of parseable dates generate_daily_summary returns n
\* blocks in series order, the k-th made of the heading, minimum and maximum
\* lines of the k-th day, each block followed by one empty line: the text
\* split at its newlines is 4n pieces and the empty piece after the last
\* newline, and it does not start with a newline.
C6_DailyBlocks ==
    (op = "generate_daily_summary" /\ Len(arg) > 0 /\ AllDatesValid(arg)) =>
        /\ result.kind = "return"
        /\ result.val[1] # "\n"
        /\ LET lines == SplitLines(result.val)
               n == Len(arg)
           IN  /\ Len(lines) = 4 * n + 1
               /\ lines[4 * n + 1] = <<>>
               /\ \A k \in 1..n :
                    /\ lines[4 * k - 3] = <<"---- ">> \o Strftime(arg[k][1]) \o <<" ----">>
                    /\ lines[4 * k - 2] = <<"  Minimum Temperature: ">>
                           \o format_temperature(convert_f_to_c(Float(arg[k][2])))
                    /\ lines[4 * k - 1] = <<"  Maximum Temperature: ">>
                           \o format_temperature(convert_f_to_c(Float(arg[k][3])))
                    /\ lines[4 * k] = <<>>

\* two different days, summarised in their order
C6_Witness ==
    /\ op = "generate_daily_summary" /\ Len(arg) = 2
    /\ arg[1] # arg[2]
    /\ result.kind = "return"

\* the rows of a csv file that are not blank lines
DataRows(csv_file) ==
    SelectSeq(SubSeq(csv_file, 2, Len(csv_file)), LAMBDA row : row # <<>>)

\* a row that has a cell in each of the columns date, min and max, the cells
\* of min and max being integers
RowWellFormed(fieldnames, row) ==
    /\ \A key \in {"date", "min", "max"} :
         ColumnOf(fieldnames, key) \in 1..Len(row)
    /\ row[ColumnOf(fieldnames, "min")] \in DOMAIN IntText
    /\ row[ColumnOf(fieldnames, "max")] \in DOMAIN IntText

\* C7: load_data_from_csv returns one record [date, min, max] per non-blank
\* row, in order, when every non-blank row has the three columns with integer
\* min and max, and otherwise fails and returns no record.
C7_LoadAllOrNothing ==
    op = "load_data_from_csv" =>
        LET rows == DataRows(arg)
        IN  IF \A k \in DOMAIN rows : RowWellFormed(arg[1], rows[k])
            THEN /\ result.kind = "return"
                 /\ Len(result.val) = Len(rows)
                 /\ \A k \in DOMAIN rows :
                      result.val[k] = <<rows[k][ColumnOf(arg[1], "date")],
                                        IntText[rows[k][ColumnOf(arg[1], "min")]],
                                        IntText[rows[k][ColumnOf(arg[1], "max")]]>>
            ELSE /\ result.kind = "raise"
                 /\ result.val = <<>>

C9_NearestTenth ==
    op = "convert_f_to_c" =>
        /\ \A j \in 1..2 :
             /\ 2 * Abs(9 * result.val[j] - 50 * (arg[j] - 32)) < 9
             /\ arg[j] = 32 => result.val[j] = 0
             /\ arg[j] = 212 => result.val[j] = 1000
        /\ arg[1] <= arg[2] => result.val[1] <= result.val[2]

C9_Witness ==
    op = "convert_f_to_c" /\ arg = <<32, 212>> /\ result.val = <<0, 1000>>

\* C10: on a non-empty series generate_summary raises the date error exactly
\* when the date of the last day of the highest max_temp or of the last day of
\* the lowest min_temp is unparsable, and returns otherwise;
\* generate_daily_summary raises it when the date of any day is unparsable.
C10_OnlyWinningDatesParsed ==
    /\ (op = "generate_summary" /\ Len(arg) > 0) =>
         LET winnersValid ==
                 /\ IsValidDate(arg[LastHighest(MaxTemps(arg))][1])
                 /\ IsValidDate(arg[LastLowest(MinTemps(arg))][1])
         IN  /\ ~winnersValid =>
                   (result.kind = "raise" /\ result.exc = "ValueError:fromisoformat")
             /\ winnersValid => result.kind = "return"
    /\ (op = "generate_daily_summary" /\ ~AllDatesValid(arg)) =>
         (result.kind = "raise" /\ result.exc = "ValueError:fromisoformat")

\* a series with an unparsable date that generate_summary summarises and
\* generate_daily_summary rejects
C10_Witness ==
    /\ op = "generate_summary" /\ ~AllDatesValid(arg) /\ result.kind = "return"
    /\ saved.op = "generate_daily_summary" /\ saved.arg = arg
    /\ saved.result.kind = "raise"

====
